---- MODULE Spec2Model ----
(***************************************************************************)
(* Model of the NCERT catalog scanner (scanner.py) and of the downloader's *)
(* identifier composition, transfer retry and availability probing         *)
(* (ncert.py).                                                             *)
(*                                                                         *)
(* The remote server is a fixed map from locators to HTTP outcomes, chosen *)
(* in the initial state; the scanner walks the code space probe by probe,  *)
(* logging every locator it probes in `probes`.                            *)
(***************************************************************************)
EXTENDS Integers, Sequences, FiniteSets, TLC

(***************************************************************************)
(* Bounds of the model (the program scans 12 classes, 49 subjects and 3    *)
(* languages; the remote is explored with a bounded number of live parts   *)
(* of one combination, and of live chapter locators of one book).          *)
(***************************************************************************)
MaxClass == 1
MaxSubjects == 2
MaxLangs == 1
MaxLiveParts == 1
MaxLive == 2

(***************************************************************************)
(* Program constants.                                                      *)
(***************************************************************************)
BASE_URL == "https://ncert.nic.in/textbook/pdf/"

NUM_CLASSES == 12
MAX_PART == 4
NUM_CHAPTERS == 40
MISS_LIMIT == 3
HTTP_OK == 200

CLASS_CODES ==
  [n \in 1..NUM_CLASSES |->
     <<"a","b","c","d","e","f","g","h","i","j","k","l">>[n]]

LANG_CODES == ("e" :> "English") @@ ("h" :> "Hindi") @@ ("u" :> "Urdu")

\* the languages in the order scan_all walks them
LANG_ORDER == <<"e", "h", "u">>

\* SUBJECT_CODES.items(), in insertion order
SUBJECT_ITEMS ==
  << <<"mh","Mathematics">>, <<"ph","Physics">>, <<"ch","Chemistry">>,
     <<"bo","Biology">>, <<"sc","Science">>, <<"ss","Social Science">>,
     <<"en","English">>, <<"hi","Hindi">>, <<"sk","Sanskrit">>,
     <<"ec","Economics">>, <<"ac","Accountancy">>,
     <<"bs","Business Studies">>, <<"hy","History">>, <<"gy","Geography">>,
     <<"ps","Political Science">>, <<"py","Psychology">>,
     <<"so","Sociology">>, <<"cs","Computer Science">>,
     <<"ip","Informatics Practices">>, <<"st","Statistics">>,
     <<"fa","Fine Arts">>, <<"hs","Home Science">>, <<"ev","EVS">>,
     <<"ci","Civics">>, <<"he","Health Education">>,
     <<"le","Legal Studies">>, <<"ms","Mass Media">>, <<"mu","Music">>,
     <<"th","Theatre">>, <<"an","Anthropology">>, <<"hu","Human Ecology">>,
     <<"bt","Biotechnology">>, <<"ee","Entrepreneurship">>,
     <<"fl","Flamingo">>, <<"vi","Vistas">>, <<"ho","Hornbill">>,
     <<"sn","Snapshots">>, <<"kk","Rimjhim">>, <<"rl","Ruchira">>,
     <<"dd","Durva">>, <<"bh","Bharati">>, <<"vs","Vasant">>,
     <<"dr","Door">>, <<"hv","Honeydew">>, <<"hc","Honeycomb">>,
     <<"ab","Alien Hand">>, <<"mr","Marigold">>, <<"rw","Raindrops">>,
     <<"ww","Winds of Change">> >>

SUBJECT_CODES ==
  [c \in {SUBJECT_ITEMS[i][1] : i \in 1..Len(SUBJECT_ITEMS)} |->
     LET i == CHOOSE j \in 1..Len(SUBJECT_ITEMS) : SUBJECT_ITEMS[j][1] = c
     IN  SUBJECT_ITEMS[i][2]]

\* ncert.py: the downloader's own tables
CLASSES ==
  [n \in 1..NUM_CLASSES |->
     <<"a","b","c","d","e","f","g","h","i","j","k","l">>[n]]

LANGUAGES == ("English" :> "e") @@ ("Hindi" :> "h") @@ ("Urdu" :> "u")

\* the special suffix tokens in the order scan_chapters checks them
SPECIALS_Reordered == <<"ps", "an", "dd", "ap", "gl", "lp">>

SPECIALS_Downloader == <<"ps", "an", "ap", "gl">>

SPECIALS == <<"ps", "an", "ap", "gl", "lp", "dd">>

(***************************************************************************)
(* Formatting and dictionaries.                                            *)
(***************************************************************************)
\* str(n)
Str(n) == ToString(n)

\* f"{ch:02d}"
ChStr(n) == IF n < 10 THEN "0" \o ToString(n) ELSE ToString(n)

EmptyDict == [k \in {} |-> 0]

\* d[k] = v
Put(d, k, v) == [x \in (DOMAIN d) \cup {k} |-> IF x = k THEN v ELSE d[x]]

Range(s) == {s[i] : i \in 1..Len(s)}

(***************************************************************************)
(* Locators.                                                               *)
(***************************************************************************)
ZipUrl(code) == BASE_URL \o code \o "dd.zip"

ChapterUrl(code, suffix) == BASE_URL \o code \o suffix \o ".pdf"

\* check_book_exists: code = f"{cc}{lang}{subj_code}{part}"
BookCode_LangFirst(cn, lang, subj_code, p) ==
  lang \o CLASS_CODES[cn] \o subj_code \o Str(p)

BookCode(cn, lang, subj_code, p) ==
  CLASS_CODES[cn] \o lang \o subj_code \o Str(p)

\* ncert.py build_book_code (language given by name)
build_book_code(cn, language, subject_code, p) ==
  CLASSES[cn] \o LANGUAGES[language] \o subject_code \o Str(p)

VARIABLES
  remote,         \* locator -> outcome (a status or a failure); 404 if absent
  file,           \* the catalog file on disk
  pc,             \* position of the scanner process
  catalog,        \* scan_all: the document under construction
  class_num, subj_idx, lang_idx, part,   \* scan_all: loop positions
  class_data, subj_data, lang_data, subject_found,
  book_code,      \* the code of the book being scanned
  chapters, misses, ch, sp,              \* scan_chapters: locals
  total_books,
  probes,         \* every locator probed so far, in order
  available, consecutive_misses,         \* ncert.py: find_available_* locals
  attempt, max_retries,                  \* ncert.py: download_file
  transfers,      \* download_file: what each transfer attempt came to
  sleeps,         \* download_file: the attempts it slept after
  returned        \* the value the downloader function returned

vars ==
  << remote, file, pc, catalog, class_num, subj_idx, lang_idx, part,
     class_data, subj_data, lang_data, subject_found, book_code,
     chapters, misses, ch, sp, total_books, probes, available,
     consecutive_misses, attempt, max_retries, transfers, sleeps, returned >>

downloaderVars ==
  << available, consecutive_misses, attempt, max_retries, transfers, sleeps,
     returned >>

scanAllLocals ==
  << catalog, class_num, subj_idx, lang_idx, part, class_data, subj_data,
     lang_data, subject_found, total_books >>

(***************************************************************************)
(* The existence prober.                                                   *)
(***************************************************************************)
\* what requests.head(url) comes to: a response with a final status code
\* (redirects followed), or an exception
Status(c) == [kind |-> "status", code |-> c]

Failure(k) == [kind |-> k, code |-> 0]

Respond(url) ==
  IF url \in DOMAIN remote THEN remote[url] ELSE Status(404)

\* url_exists: try: return r.status_code == 200; except: return False
url_exists_Any2xx(url) ==
  LET r == Respond(url)
  IN  r.kind = "status" /\ r.code \in 200..299

url_exists_ErrorIsTrue(url) ==
  LET r == Respond(url)
  IN  r.kind # "status" \/ r.code = HTTP_OK

url_exists(url) ==
  LET r == Respond(url)
  IN  r.kind = "status" /\ r.code = HTTP_OK

\* check_book_exists: url_exists(zip_url) or url_exists(ch1_url)
BookExists_ZipOnly(code) == url_exists(ZipUrl(code))

BookExists(code) ==
  url_exists(ZipUrl(code)) \/ url_exists(ChapterUrl(code, "01"))

\* the locators check_book_exists probes (`or` short-circuits)
ExistenceProbes(code) ==
  IF url_exists(ZipUrl(code))
    THEN << ZipUrl(code) >>
    ELSE << ZipUrl(code), ChapterUrl(code, "01") >>

(***************************************************************************)
(* scan_chapters.                                                          *)
(***************************************************************************)
\* if misses > 3 and chapters: break
StopNumeric_IgnoreFound(m, chs) == m > MISS_LIMIT

StopNumeric_OneLate(m, chs) == m > MISS_LIMIT + 1 /\ chs # << >>

StopNumeric(m, chs) == m > MISS_LIMIT /\ chs # << >>

\* one iteration of `for ch in range(0, 40)`
ChapterProbe ==
  /\ pc = "scan_numeric"
  /\ LET url == ChapterUrl(book_code, ChStr(ch))
         hit == url_exists(url)
         chapters1 == IF hit THEN Append(chapters, ChStr(ch)) ELSE chapters
         misses1 == IF hit THEN 0 ELSE misses + 1
         stop == ~hit /\ StopNumeric(misses1, chapters1)
     IN  /\ probes' = Append(probes, url)
         /\ chapters' = chapters1
         /\ misses' = misses1
         /\ IF stop \/ ch + 1 >= NUM_CHAPTERS
              THEN pc' = "scan_special" /\ ch' = ch /\ sp' = 1
              ELSE pc' = pc /\ ch' = ch + 1 /\ sp' = sp
  /\ UNCHANGED << remote, file, book_code >>
  /\ UNCHANGED scanAllLocals
  /\ UNCHANGED downloaderVars

\* one iteration of `for sp in ['ps','an','ap','gl','lp','dd']`
SpecialProbe ==
  /\ pc = "scan_special"
  /\ sp <= Len(SPECIALS)
  /\ LET url == ChapterUrl(book_code, SPECIALS[sp])
     IN  /\ probes' = Append(probes, url)
         /\ chapters' = IF url_exists(url)
                          THEN Append(chapters, SPECIALS[sp])
                          ELSE chapters
  /\ sp' = sp + 1
  /\ pc' = IF sp = Len(SPECIALS) THEN "scan_return" ELSE pc
  /\ UNCHANGED << remote, file, book_code, misses, ch >>
  /\ UNCHANGED scanAllLocals
  /\ UNCHANGED downloaderVars

(***************************************************************************)
(* Remotes.                                                                *)
(***************************************************************************)
RECURSIVE SubsetsUpTo(_, _)
SubsetsUpTo(S, k) ==
  IF k = 0 THEN {{}}
  ELSE LET prev == SubsetsUpTo(S, k - 1)
       IN  prev \cup {p \cup {x} : p \in prev, x \in S}

\* the remote on which exactly the locators of U answer 200
Live(U) == [u \in U |-> Status(HTTP_OK)]

\* scan_chapters alone, on one confirmed book: at most MaxLive of its
\* chapter locators, numeric or special, exist
ChapterRemotes(code) ==
  { Live(U) :
      U \in SubsetsUpTo(
               {ChapterUrl(code, ChStr(n)) : n \in 0..(NUM_CHAPTERS - 1)}
                 \cup {ChapterUrl(code, t) : t \in Range(SPECIALS)},
               MaxLive) }

NoFile == [state |-> "absent"]

InitDownloader ==
  /\ available = << >> /\ consecutive_misses = 0
  /\ attempt = 0 /\ max_retries = 0
  /\ transfers = << >> /\ sleeps = << >>
  /\ returned = "nothing"

InitLocals ==
  /\ catalog = EmptyDict
  /\ class_num = 0 /\ subj_idx = 0 /\ lang_idx = 0 /\ part = 0
  /\ class_data = EmptyDict /\ subj_data = EmptyDict /\ lang_data = EmptyDict
  /\ subject_found = FALSE
  /\ total_books = 0

InitChapters ==
  /\ book_code = BookCode(2, "e", "ph", 1)
  /\ remote \in ChapterRemotes(book_code)
  /\ file = NoFile
  /\ pc = "scan_numeric"
  /\ chapters = << >> /\ misses = 0 /\ ch = 0 /\ sp = 0
  /\ probes = << >>
  /\ InitLocals
  /\ InitDownloader

NextChapters == ChapterProbe \/ SpecialProbe

ChapterSpec == InitChapters /\ [][NextChapters]_vars

(***************************************************************************)
(* scan_all.                                                               *)
(***************************************************************************)
SubjCode(i) == SUBJECT_ITEMS[i][1]

SubjName(i) == SUBJECT_ITEMS[i][2]

\* banner(); catalog = {...}; total_books = 0
ScanAllBegin ==
  /\ pc = "start"
  /\ catalog' = [last_updated |-> "now", classes |-> EmptyDict]
  /\ total_books' = 0
  /\ class_num' = 1
  /\ pc' = "class_loop"
  /\ UNCHANGED << remote, file, subj_idx, lang_idx, part, class_data,
                  subj_data, lang_data, subject_found, book_code, chapters,
                  misses, ch, sp, probes >>
  /\ UNCHANGED downloaderVars

\* for class_num in range(1, 13): class_data = {}
ClassBegin ==
  /\ pc = "class_loop"
  /\ class_num <= MaxClass
  /\ class_data' = EmptyDict
  /\ subj_idx' = 1
  /\ pc' = "subject_loop"
  /\ UNCHANGED << remote, file, catalog, class_num, lang_idx, part,
                  subj_data, lang_data, subject_found, book_code, chapters,
                  misses, ch, sp, total_books, probes >>
  /\ UNCHANGED downloaderVars

\* for subj_code, subj_name in SUBJECT_CODES.items(): ...
SubjectBegin ==
  /\ pc = "subject_loop"
  /\ subj_idx <= MaxSubjects
  /\ subject_found' = FALSE
  /\ subj_data' = [code |-> SubjCode(subj_idx), languages |-> EmptyDict]
  /\ lang_idx' = 1
  /\ pc' = "lang_loop"
  /\ UNCHANGED << remote, file, catalog, class_num, subj_idx, part,
                  class_data, lang_data, book_code, chapters, misses, ch,
                  sp, total_books, probes >>
  /\ UNCHANGED downloaderVars

\* for lang_code in ['e', 'h', 'u']: lang_data = {"parts": {}}
LangBegin ==
  /\ pc = "lang_loop"
  /\ lang_idx <= MaxLangs
  /\ lang_data' = [parts |-> EmptyDict]
  /\ part' = 1
  /\ pc' = "part_loop"
  /\ UNCHANGED << remote, file, catalog, class_num, subj_idx, lang_idx,
                  class_data, subj_data, subject_found, book_code, chapters,
                  misses, ch, sp, total_books, probes >>
  /\ UNCHANGED downloaderVars

\* the part the loop `for part in range(1, 5)` takes up after a failed check
PartAfterMiss_SkipRest(p) == IF p = 1 THEN MAX_PART + 1 ELSE p + 1

PartAfterMiss(p) == p + 1

\* exists, book_code = check_book_exists(...); if exists: ... scan_chapters
PartFound ==
  /\ pc = "part_loop"
  /\ part <= MAX_PART
  /\ LET code == BookCode(class_num, LANG_ORDER[lang_idx],
                          SubjCode(subj_idx), part)
     IN  /\ BookExists(code)
         /\ book_code' = code
         /\ probes' = probes \o ExistenceProbes(code)
  /\ subject_found' = TRUE
  /\ chapters' = << >>
  /\ misses' = 0
  /\ ch' = 0
  /\ pc' = "scan_numeric"
  /\ UNCHANGED << remote, file, catalog, class_num, subj_idx, lang_idx,
                  part, class_data, subj_data, lang_data, sp, total_books >>
  /\ UNCHANGED downloaderVars

\* exists is false: on to the next part
PartMissing ==
  /\ pc = "part_loop"
  /\ part <= MAX_PART
  /\ LET code == BookCode(class_num, LANG_ORDER[lang_idx],
                          SubjCode(subj_idx), part)
     IN  /\ ~BookExists(code)
         /\ book_code' = code
         /\ probes' = probes \o ExistenceProbes(code)
  /\ part' = PartAfterMiss(part)
  /\ UNCHANGED << remote, file, pc, catalog, class_num, subj_idx, lang_idx,
                  class_data, subj_data, lang_data, subject_found, chapters,
                  misses, ch, sp, total_books >>
  /\ UNCHANGED downloaderVars

\* "has_zip": url_exists(f"{BASE_URL}{book_code}dd.zip")
HasZip_FromChapter(code) == url_exists(ChapterUrl(code, "01"))

HasZip(code) == url_exists(ZipUrl(code))

\* chapters = scan_chapters(book_code) returns; the part is recorded
ScanChaptersReturn ==
  /\ pc = "scan_return"
  /\ lang_data' =
       [parts |-> Put(lang_data.parts, Str(part),
                      [code |-> book_code,
                       chapters |-> chapters,
                       has_zip |-> HasZip(book_code)])]
  /\ probes' = Append(probes, ZipUrl(book_code))
  /\ total_books' = total_books + 1
  /\ part' = part + 1
  /\ pc' = "part_loop"
  /\ UNCHANGED << remote, file, catalog, class_num, subj_idx, lang_idx,
                  class_data, subj_data, subject_found, book_code, chapters,
                  misses, ch, sp >>
  /\ UNCHANGED downloaderVars

\* if lang_data["parts"]: subj_data["languages"][lang_code] = lang_data
LangEnd ==
  /\ pc = "part_loop"
  /\ part > MAX_PART
  /\ subj_data' =
       IF DOMAIN lang_data.parts # {}
         THEN [subj_data EXCEPT
                 !.languages = Put(@, LANG_ORDER[lang_idx], lang_data)]
         ELSE subj_data
  /\ lang_idx' = lang_idx + 1
  /\ pc' = "lang_loop"
  /\ UNCHANGED << remote, file, catalog, class_num, subj_idx, part,
                  class_data, lang_data, subject_found, book_code, chapters,
                  misses, ch, sp, total_books, probes >>
  /\ UNCHANGED downloaderVars

\* if subject_found: class_data[subj_name] = subj_data
RecordSubject_Always(cd, name, sd, found) == Put(cd, name, sd)

RecordSubject(cd, name, sd, found) ==
  IF found THEN Put(cd, name, sd) ELSE cd

SubjectEnd ==
  /\ pc = "lang_loop"
  /\ lang_idx > MaxLangs
  /\ class_data' =
       RecordSubject(class_data, SubjName(subj_idx), subj_data, subject_found)
  /\ subj_idx' = subj_idx + 1
  /\ pc' = "subject_loop"
  /\ UNCHANGED << remote, file, catalog, class_num, lang_idx, part,
                  subj_data, lang_data, subject_found, book_code, chapters,
                  misses, ch, sp, total_books, probes >>
  /\ UNCHANGED downloaderVars

\* if class_data: catalog["classes"][str(class_num)] = class_data
ClassEnd ==
  /\ pc = "subject_loop"
  /\ subj_idx > MaxSubjects
  /\ catalog' =
       IF DOMAIN class_data # {}
         THEN [catalog EXCEPT !.classes = Put(@, Str(class_num), class_data)]
         ELSE catalog
  /\ class_num' = class_num + 1
  /\ pc' = "class_loop"
  /\ UNCHANGED << remote, file, subj_idx, lang_idx, part, class_data,
                  subj_data, lang_data, subject_found, book_code, chapters,
                  misses, ch, sp, total_books, probes >>
  /\ UNCHANGED downloaderVars

\* the class loop is exhausted
ScanFinished ==
  /\ pc = "class_loop"
  /\ class_num > MaxClass
  /\ pc' = "save"
  /\ UNCHANGED << remote, file, catalog, class_num, subj_idx, lang_idx,
                  part, class_data, subj_data, lang_data, subject_found,
                  book_code, chapters, misses, ch, sp, total_books, probes >>
  /\ UNCHANGED downloaderVars

(***************************************************************************)
(* The catalog file.                                                       *)
(***************************************************************************)
Truncated == [state |-> "empty"]

PartialFile == [state |-> "partial"]

Complete(doc) == [state |-> "complete", doc |-> doc]

\* with open(CATALOG_FILE, 'w', encoding='utf-8') as f:
SaveOpen ==
  /\ pc = "save"
  /\ file' = Truncated
  /\ pc' = "dump"
  /\ UNCHANGED << remote, book_code, chapters, misses, ch, sp, probes >>
  /\ UNCHANGED scanAllLocals
  /\ UNCHANGED downloaderVars

\* json.dump(catalog, f, ...); the file is closed; return catalog
SaveDump ==
  /\ pc = "dump"
  /\ file' = Complete(catalog)
  /\ pc' = "done"
  /\ UNCHANGED << remote, book_code, chapters, misses, ch, sp, probes >>
  /\ UNCHANGED scanAllLocals
  /\ UNCHANGED downloaderVars

\* KeyboardInterrupt anywhere in scan_all; __main__ prints and exits.  An
\* interrupt inside json.dump closes the file on what was written so far.
Interrupt ==
  /\ pc \notin {"done", "interrupted"}
  /\ pc' = "interrupted"
  /\ IF pc = "dump"
       THEN file' \in {Truncated, PartialFile}
       ELSE file' = file
  /\ catalog' = EmptyDict
  /\ class_num' = 0 /\ subj_idx' = 0 /\ lang_idx' = 0 /\ part' = 0
  /\ class_data' = EmptyDict /\ subj_data' = EmptyDict
  /\ lang_data' = EmptyDict
  /\ subject_found' = FALSE
  /\ total_books' = 0
  /\ book_code' = ""
  /\ chapters' = << >> /\ misses' = 0 /\ ch' = 0 /\ sp' = 0
  /\ probes' = << >>
  /\ UNCHANGED remote
  /\ UNCHANGED downloaderVars

(***************************************************************************)
(* The remotes scan_all is run against.                                    *)
(***************************************************************************)
\* what a live book offers: the file names after the book code
PROFILES ==
  { {"dd.zip"},
    {"00.pdf"},
    {"dd.zip", "00.pdf", "01.pdf", "ps.pdf"},
    {"01.pdf", "02.pdf", "09.pdf", "gl.pdf", "dd.pdf"} }

Combinations == (1..MaxClass) \X (1..MaxSubjects) \X (1..MaxLangs)

\* the remotes with at most MaxLiveParts live parts, all of one combination
ScanRemotes ==
  UNION { UNION { { Live(UNION { { BASE_URL
                                     \o BookCode(q[1], LANG_ORDER[q[3]],
                                                 SUBJECT_ITEMS[q[2]][1], p)
                                     \o x : x \in f[p] } : p \in P }) :
                      f \in [P -> PROFILES] } :
                  P \in SubsetsUpTo(1..MAX_PART, MaxLiveParts) } :
          q \in Combinations }

\* the catalog an earlier complete run left behind
PriorCatalog ==
  [last_updated |-> "earlier",
   classes |->
     ("1" :> ("Mathematics" :>
        [code |-> "mh",
         languages |->
           ("e" :> [parts |->
              ("1" :> [code |-> "aemh1",
                       chapters |-> << "01" >>,
                       has_zip |-> FALSE])])]))]

Init ==
  /\ remote \in ScanRemotes
  /\ file \in {NoFile, Complete(PriorCatalog)}
  /\ pc = "start"
  /\ book_code = ""
  /\ chapters = << >> /\ misses = 0 /\ ch = 0 /\ sp = 0
  /\ probes = << >>
  /\ InitLocals
  /\ InitDownloader

Next ==
  \/ ScanAllBegin
  \/ ClassBegin
  \/ SubjectBegin
  \/ LangBegin
  \/ PartFound
  \/ PartMissing
  \/ ChapterProbe
  \/ SpecialProbe
  \/ ScanChaptersReturn
  \/ LangEnd
  \/ SubjectEnd
  \/ ClassEnd
  \/ ScanFinished
  \/ SaveOpen
  \/ SaveDump
  \/ Interrupt

Spec == Init /\ [][Next]_vars

(***************************************************************************)
(* scan_all against a server that may fail: the archive and the first      *)
(* chapter of one part answer with any outcome a probe can meet.           *)
(***************************************************************************)
\* success, a non-success status, a timeout, a connection error
OUTCOMES ==
  { Status(HTTP_OK), Status(500), Failure("timeout"),
    Failure("connection_error") }

FaultRemotes ==
  UNION { { (ZipUrl(BookCode(q[1], LANG_ORDER[q[3]],
                             SUBJECT_ITEMS[q[2]][1], p)) :> oz)
            @@ (ChapterUrl(BookCode(q[1], LANG_ORDER[q[3]],
                                    SUBJECT_ITEMS[q[2]][1], p), "01") :> oc) :
              oz \in OUTCOMES, oc \in OUTCOMES } :
          q \in Combinations, p \in 1..MAX_PART }

FaultInit ==
  /\ remote \in FaultRemotes
  /\ file \in {NoFile, Complete(PriorCatalog)}
  /\ pc = "start"
  /\ book_code = ""
  /\ chapters = << >> /\ misses = 0 /\ ch = 0 /\ sp = 0
  /\ probes = << >>
  /\ InitLocals
  /\ InitDownloader

\* the scan left alone: no KeyboardInterrupt
FaultNext ==
  \/ ScanAllBegin
  \/ ClassBegin
  \/ SubjectBegin
  \/ LangBegin
  \/ PartFound
  \/ PartMissing
  \/ ChapterProbe
  \/ SpecialProbe
  \/ ScanChaptersReturn
  \/ LangEnd
  \/ SubjectEnd
  \/ ClassEnd
  \/ ScanFinished
  \/ SaveOpen
  \/ SaveDump

\* every probe is bounded by its timeout, so the running scan keeps stepping
FaultSpec == FaultInit /\ [][FaultNext]_vars /\ WF_vars(FaultNext)

(***************************************************************************)
(* One existence probe, by either program, of a locator that answers with  *)
(* any final status or fails.                                              *)
(***************************************************************************)
\* ncert.py build_download_url: "if chapter:" is false for None and ""
build_download_url(code, chapter) ==
  IF chapter # ""
    THEN BASE_URL \o code \o chapter \o ".pdf"
    ELSE BASE_URL \o code \o "dd.zip"

\* ncert.py check_url_exists: (status_code == 200, status_code), and
\* (False, 0) on a requests.RequestException
check_url_exists(url) ==
  LET r == Respond(url)
  IN  IF r.kind = "status" THEN << r.code = HTTP_OK, r.code >>
                           ELSE << FALSE, 0 >>

\* the final status codes a server can answer with
STATUS_CODES == 100..599

ProbedUrl == build_download_url(build_book_code(1, "English", "mh", 1), "")

ProbeRemotes ==
  { ProbedUrl :> o :
      o \in { Status(c) : c \in STATUS_CODES }
              \cup { Failure("timeout"), Failure("connection_error") } }

InitScanner ==
  /\ file = NoFile
  /\ book_code = ""
  /\ chapters = << >> /\ misses = 0 /\ ch = 0 /\ sp = 0
  /\ probes = << >>
  /\ InitLocals

ProbeInit ==
  /\ remote \in ProbeRemotes
  /\ pc = "probe"
  /\ InitScanner
  /\ InitDownloader

\* scanner.py: url_exists(url)
ScannerProbe ==
  /\ pc = "probe"
  /\ probes' = Append(probes, ProbedUrl)
  /\ returned' = << "url_exists", url_exists(ProbedUrl) >>
  /\ pc' = "probed"
  /\ UNCHANGED << remote, file, book_code, chapters, misses, ch, sp >>
  /\ UNCHANGED scanAllLocals
  /\ UNCHANGED << available, consecutive_misses, attempt, max_retries,
                  transfers, sleeps >>

\* ncert.py: exists, status = check_url_exists(url)
DownloaderProbe ==
  /\ pc = "probe"
  /\ probes' = Append(probes, ProbedUrl)
  /\ returned' = << "check_url_exists" >> \o check_url_exists(ProbedUrl)
  /\ pc' = "probed"
  /\ UNCHANGED << remote, file, book_code, chapters, misses, ch, sp >>
  /\ UNCHANGED scanAllLocals
  /\ UNCHANGED << available, consecutive_misses, attempt, max_retries,
                  transfers, sleeps >>

ProbeNext ==
  \/ ScannerProbe
  \/ DownloaderProbe

ProbeSpec == ProbeInit /\ [][ProbeNext]_vars

(***************************************************************************)
(* ncert.py download_file: the transfer with retries.                      *)
(***************************************************************************)
\* the largest max_retries a caller passes
MaxRetries == 3

\* def download_file(url, save_path, max_retries: int = 3)
DEFAULT_MAX_RETRIES == 3

\* what the try block raises that "except requests.RequestException" catches:
\* raise_for_status, a timeout, a connection error
REQUEST_ERRORS == { "http_error", "timeout", "connection_error" }

\* open(save_path, 'wb') and f.write raise OSError, which is not caught
OTHER_ERRORS == { "os_error" }

\* if attempt < max_retries - 1: time.sleep(2)
SleepAfterFailure_Always(a, m) == a < m

SleepAfterFailure(a, m) == a < m - 1

DownloadInit ==
  /\ remote = EmptyDict
  /\ pc = "transfer"
  /\ InitScanner
  /\ available = << >> /\ consecutive_misses = 0
  /\ attempt = 0
  /\ max_retries \in (0..MaxRetries) \cup {DEFAULT_MAX_RETRIES}
  /\ transfers = << >> /\ sleeps = << >>
  /\ returned = "nothing"

\* the try block runs to the end: return True
TransferDone ==
  /\ pc = "transfer"
  /\ attempt < max_retries
  /\ transfers' = Append(transfers, "ok")
  /\ returned' = << "download_file", TRUE >>
  /\ pc' = "returned"
  /\ UNCHANGED << remote, file, book_code, chapters, misses, ch, sp, probes >>
  /\ UNCHANGED scanAllLocals
  /\ UNCHANGED << available, consecutive_misses, attempt, max_retries,
                  sleeps >>

\* except requests.RequestException: sleep unless this was the last attempt
TransferFailed ==
  /\ pc = "transfer"
  /\ attempt < max_retries
  /\ \E e \in REQUEST_ERRORS : transfers' = Append(transfers, e)
  /\ sleeps' = IF SleepAfterFailure(attempt, max_retries)
                 THEN Append(sleeps, attempt + 1)
                 ELSE sleeps
  /\ attempt' = attempt + 1
  /\ UNCHANGED << remote, file, pc, book_code, chapters, misses, ch, sp,
                  probes >>
  /\ UNCHANGED scanAllLocals
  /\ UNCHANGED << available, consecutive_misses, max_retries, returned >>

\* any other exception leaves download_file
TransferRaised ==
  /\ pc = "transfer"
  /\ attempt < max_retries
  /\ \E e \in OTHER_ERRORS : transfers' = Append(transfers, e)
  /\ pc' = "raised"
  /\ UNCHANGED << remote, file, book_code, chapters, misses, ch, sp, probes >>
  /\ UNCHANGED scanAllLocals
  /\ UNCHANGED << available, consecutive_misses, attempt, max_retries,
                  sleeps, returned >>

\* the loop is exhausted: return False
TransferGiveUp ==
  /\ pc = "transfer"
  /\ attempt >= max_retries
  /\ returned' = << "download_file", FALSE >>
  /\ pc' = "returned"
  /\ UNCHANGED << remote, file, book_code, chapters, misses, ch, sp, probes >>
  /\ UNCHANGED scanAllLocals
  /\ UNCHANGED << available, consecutive_misses, attempt, max_retries,
                  transfers, sleeps >>

DownloadNext ==
  \/ TransferDone
  \/ TransferFailed
  \/ TransferRaised
  \/ TransferGiveUp

DownloadSpec == DownloadInit /\ [][DownloadNext]_vars

(***************************************************************************)
(* ncert.py find_available_parts, for Mathematics of class 1 in English.   *)
(***************************************************************************)
\* for part in range(1, 5)
LAST_PART == 4

PartsBook(p) == build_book_code(1, "English", "mh", p)

PartsLocators ==
  UNION { { build_download_url(PartsBook(p), ""),
            build_download_url(PartsBook(p), "01") } : p \in 1..LAST_PART }

\* every locator of the four parts answers 200 or, all the others alike,
\* answers 404 or times out
PartsRemotes ==
  UNION { { Live(U),
            Live(U) @@ [u \in PartsLocators \ U |-> Failure("timeout")] } :
          U \in SUBSET PartsLocators }

\* zip_exists or ch1_exists, both probed
PartAvailable(p) ==
  LET zip_exists == check_url_exists(build_download_url(PartsBook(p), ""))[1]
      ch1_exists == check_url_exists(build_download_url(PartsBook(p), "01"))[1]
  IN  zip_exists \/ ch1_exists

\* else: if available: break
BreakOnGap_Never(avail) == FALSE

BreakOnGap(avail) == avail # << >>

PartsInit ==
  /\ remote \in PartsRemotes
  /\ pc = "parts_loop"
  /\ file = NoFile
  /\ book_code = PartsBook(1)
  /\ chapters = << >> /\ misses = 0 /\ ch = 0 /\ sp = 0
  /\ probes = << >>
  /\ catalog = EmptyDict
  /\ class_num = 1 /\ subj_idx = 0 /\ lang_idx = 0 /\ part = 1
  /\ class_data = EmptyDict /\ subj_data = EmptyDict /\ lang_data = EmptyDict
  /\ subject_found = FALSE
  /\ total_books = 0
  /\ InitDownloader

\* one pass of the loop in which the part is found: available.append(part)
PartsFound ==
  /\ pc = "parts_loop"
  /\ PartAvailable(part)
  /\ probes' = probes \o << build_download_url(PartsBook(part), ""),
                            build_download_url(PartsBook(part), "01") >>
  /\ available' = Append(available, part)
  /\ IF part < LAST_PART
       THEN /\ part' = part + 1
            /\ book_code' = PartsBook(part + 1)
            /\ pc' = "parts_loop"
       ELSE /\ pc' = "parts_return"
            /\ UNCHANGED << part, book_code >>
  /\ UNCHANGED << remote, file, chapters, misses, ch, sp, catalog, class_num,
                  subj_idx, lang_idx, class_data, subj_data, lang_data,
                  subject_found, total_books >>
  /\ UNCHANGED << consecutive_misses, attempt, max_retries, transfers,
                  sleeps, returned >>

\* one pass of the loop in which the part is not found
PartsMiss ==
  /\ pc = "parts_loop"
  /\ ~ PartAvailable(part)
  /\ probes' = probes \o << build_download_url(PartsBook(part), ""),
                            build_download_url(PartsBook(part), "01") >>
  /\ IF ~ BreakOnGap(available) /\ part < LAST_PART
       THEN /\ part' = part + 1
            /\ book_code' = PartsBook(part + 1)
            /\ pc' = "parts_loop"
       ELSE /\ pc' = "parts_return"
            /\ UNCHANGED << part, book_code >>
  /\ UNCHANGED << remote, file, chapters, misses, ch, sp, catalog, class_num,
                  subj_idx, lang_idx, class_data, subj_data, lang_data,
                  subject_found, total_books >>
  /\ UNCHANGED downloaderVars

\* return available if available else [1]
PartsReturn ==
  /\ pc = "parts_return"
  /\ returned' = << "find_available_parts",
                    IF available # << >> THEN available ELSE << 1 >> >>
  /\ pc' = "returned"
  /\ UNCHANGED << remote, file, book_code, chapters, misses, ch, sp, probes >>
  /\ UNCHANGED scanAllLocals
  /\ UNCHANGED << available, consecutive_misses, attempt, max_retries,
                  transfers, sleeps >>

PartsNext ==
  \/ PartsFound
  \/ PartsMiss
  \/ PartsReturn

PartsSpec == PartsInit /\ [][PartsNext]_vars

(***************************************************************************)
(* ncert.py find_available_chapters, on one book.                          *)
(***************************************************************************)
\* for ch in range(0, 50)
FINDER_CHAPTERS == 50

\* if consecutive_misses >= 5 and len(available) > 0: break
FINDER_MISS_LIMIT == 5

\* if ch >= 10 and len(available) == 0: break
FINDER_EMPTY_LIMIT == 10

\* for special in ['ps', 'an', 'ap', 'gl']
FINDER_SPECIALS == << "ps", "an", "ap", "gl" >>

FinderBook == build_book_code(1, "English", "mh", 1)

FinderLocators ==
  { build_download_url(FinderBook, ChStr(n)) : n \in 0..(FINDER_CHAPTERS - 1) }
    \cup { BASE_URL \o FinderBook \o t \o ".pdf" : t \in Range(FINDER_SPECIALS) }

\* at most MaxLive locators of the book answer 200; the others answer 404
\* or, with at most one locator alive, time out
FinderRemotes ==
  { Live(U) : U \in SubsetsUpTo(FinderLocators, MaxLive) }
    \cup { Live(U) @@ [u \in FinderLocators \ U |-> Failure("timeout")] :
             U \in SubsetsUpTo(FinderLocators, 1) }

\* try: response.status_code == 200 ... except: (a miss)
HeadIs200(url) ==
  LET r == Respond(url)
  IN  r.kind = "status" /\ r.code = HTTP_OK

StopAfterMisses_OneLate(m, avail) == m > FINDER_MISS_LIMIT /\ Len(avail) > 0

StopAfterMisses(m, avail) == m >= FINDER_MISS_LIMIT /\ Len(avail) > 0

StopWhenEmpty(c, avail) == c >= FINDER_EMPTY_LIMIT /\ Len(avail) = 0

FinderInit ==
  /\ remote \in FinderRemotes
  /\ pc = "find_numeric"
  /\ file = NoFile
  /\ book_code = FinderBook
  /\ chapters = << >> /\ misses = 0 /\ ch = 0 /\ sp = 0
  /\ probes = << >>
  /\ InitLocals
  /\ InitDownloader

\* one iteration of `for ch in range(0, 50)`
FinderProbe ==
  /\ pc = "find_numeric"
  /\ LET chapter_str == ChStr(ch)
         url == build_download_url(book_code, chapter_str)
         hit == HeadIs200(url)
         available1 == IF hit THEN Append(available, chapter_str)
                              ELSE available
         misses1 == IF hit THEN 0 ELSE consecutive_misses + 1
         stop == StopAfterMisses(misses1, available1)
                   \/ StopWhenEmpty(ch, available1)
     IN  /\ probes' = Append(probes, url)
         /\ available' = available1
         /\ consecutive_misses' = misses1
         /\ IF stop \/ ch + 1 >= FINDER_CHAPTERS
              THEN pc' = "find_special" /\ ch' = ch /\ sp' = 1
              ELSE pc' = pc /\ ch' = ch + 1 /\ sp' = sp
  /\ UNCHANGED << remote, file, book_code, chapters, misses >>
  /\ UNCHANGED scanAllLocals
  /\ UNCHANGED << attempt, max_retries, transfers, sleeps, returned >>

\* one iteration of `for special in ['ps', 'an', 'ap', 'gl']`
FinderSpecial ==
  /\ pc = "find_special"
  /\ sp <= Len(FINDER_SPECIALS)
  /\ LET url == BASE_URL \o book_code \o FINDER_SPECIALS[sp] \o ".pdf"
     IN  /\ probes' = Append(probes, url)
         /\ available' = IF HeadIs200(url)
                           THEN Append(available, FINDER_SPECIALS[sp])
                           ELSE available
  /\ sp' = sp + 1
  /\ UNCHANGED << remote, file, pc, book_code, chapters, misses, ch >>
  /\ UNCHANGED scanAllLocals
  /\ UNCHANGED << consecutive_misses, attempt, max_retries, transfers,
                  sleeps, returned >>

\* return available
FinderReturn ==
  /\ pc = "find_special"
  /\ sp > Len(FINDER_SPECIALS)
  /\ returned' = << "find_available_chapters", available >>
  /\ pc' = "returned"
  /\ UNCHANGED << remote, file, book_code, chapters, misses, ch, sp, probes >>
  /\ UNCHANGED scanAllLocals
  /\ UNCHANGED << available, consecutive_misses, attempt, max_retries,
                  transfers, sleeps >>

FinderNext ==
  \/ FinderProbe
  \/ FinderSpecial
  \/ FinderReturn

FinderSpec == FinderInit /\ [][FinderNext]_vars

(***************************************************************************)
(* Vocabulary of the properties.                                           *)
(***************************************************************************)
Probed(url) == url \in Range(probes)

TimesProbed(url) == Cardinality({i \in 1..Len(probes) : probes[i] = url})

\* the code at a position of the code space (subject and language by rank)
CodeAt(c, s, l, p) == BookCode(c, LANG_ORDER[l], SubjCode(s), p)

Exists(c, s, l, p) == BookExists(CodeAt(c, s, l, p))

Scanned == pc \in {"save", "dump", "done"}

\* the classes mapping of the document, once there is a document
Classes ==
  IF pc \in {"start", "interrupted"} THEN EmptyDict ELSE catalog.classes

SubjectPresent(c, s) ==
  /\ Str(c) \in DOMAIN Classes
  /\ SubjName(s) \in DOMAIN Classes[Str(c)]

PartPresent(c, s, l, p) ==
  /\ SubjectPresent(c, s)
  /\ LANG_ORDER[l] \in DOMAIN Classes[Str(c)][SubjName(s)].languages
  /\ Str(p) \in
       DOMAIN Classes[Str(c)][SubjName(s)].languages[LANG_ORDER[l]].parts

PartRecord(c, s, l, p) ==
  Classes[Str(c)][SubjName(s)].languages[LANG_ORDER[l]].parts[Str(p)]

Positions ==
  (1..MaxClass) \X (1..MaxSubjects) \X (1..MaxLangs) \X (1..MAX_PART)

\* every part record of the document
PartRecords ==
  UNION { UNION { UNION {
    { Classes[ck][nm].languages[lc].parts[pk] :
        pk \in DOMAIN Classes[ck][nm].languages[lc].parts } :
      lc \in DOMAIN Classes[ck][nm].languages } :
    nm \in DOMAIN Classes[ck] } :
  ck \in DOMAIN Classes }

\* "00" .. "39"
NumericSuffixes == [n \in 0..(NUM_CHAPTERS - 1) |-> ChStr(n)]

\* the numeric suffixes of the current book that were probed / that exist
ProbedNumeric ==
  LET logged == Range(probes)
  IN  {n \in 0..(NUM_CHAPTERS - 1) :
         ChapterUrl(book_code, NumericSuffixes[n]) \in logged}

HitNumeric ==
  {n \in 0..(NUM_CHAPTERS - 1) :
     url_exists(ChapterUrl(book_code, NumericSuffixes[n]))}

\* the special tokens and their checking order, as the catalog format has them
SpecialTokens == <<"ps", "an", "ap", "gl", "lp", "dd">>

\* every locator of a book: archive, numeric chapters, special tokens
LocatorsOf(code) ==
  {ZipUrl(code)}
    \cup {ChapterUrl(code, NumericSuffixes[n]) : n \in DOMAIN NumericSuffixes}
    \cup {ChapterUrl(code, t) : t \in Range(SpecialTokens)}

(***************************************************************************)
(* C1                                                                      *)
(***************************************************************************)
\* C1 (as stated): when the existence check of part 1 of a (class, subject,
\* language) combination has returned false, no locator of parts 2, 3 or 4
\* of that combination is ever probed.
C1_NoProbeAfterMissingPart1 ==
  LET logged == Range(probes)
  IN  \A c \in 1..MaxClass, s \in 1..MaxSubjects, l \in 1..MaxLangs :
        (ZipUrl(CodeAt(c, s, l, 1)) \in logged /\ ~Exists(c, s, l, 1)) =>
          \A p \in 2..MAX_PART :
            LocatorsOf(CodeAt(c, s, l, p)) \cap logged = {}

\* C1 (amended): scan_all issues the existence check for every part 1..4 of
\* every (class, subject, language) combination, whatever the check of
\* part 1 returned: once the scan is over, the archive locator of each part
\* has been probed, and so has its chapter "01" locator when the archive is
\* missing.
C1_EveryPartChecked ==
  Scanned =>
    LET logged == Range(probes)
    IN  \A q \in Positions :
          LET code == CodeAt(q[1], q[2], q[3], q[4])
          IN  /\ ZipUrl(code) \in logged
              /\ ~url_exists(ZipUrl(code)) =>
                   ChapterUrl(code, "01") \in logged

\* a finished scan that recorded a part 2 whose part 1 does not exist
C1_Witness ==
  /\ Scanned
  /\ \E c \in 1..MaxClass, s \in 1..MaxSubjects, l \in 1..MaxLangs :
       /\ ~Exists(c, s, l, 1)
       /\ PartPresent(c, s, l, 2)

(***************************************************************************)
(* C2                                                                      *)
(***************************************************************************)
\* C2: scan_chapters probes the numeric suffixes in ascending order from
\* "00" (the i-th probe is suffix i-1), and once a chapter has been found
\* the probe that is the 4th consecutive miss is the last numeric probe: no
\* higher suffix is ever probed.
C2_StopsAfterFourthMiss ==
  LET numbered == {<<n, ChapterUrl(book_code, NumericSuffixes[n])>> :
                     n \in 0..(NUM_CHAPTERS - 1)}
      logged == Range(probes)
      probed == {q[1] : q \in {r \in numbered : r[2] \in logged}}
      hits == {q[1] : q \in {r \in numbered : url_exists(r[2])}}
      k == Cardinality(probed)
  IN  /\ probed = 0..(k - 1)
      /\ k <= Len(probes)
      /\ \A q \in numbered : q[1] < k => probes[q[1] + 1] = q[2]
      /\ \A i \in (k + 1)..Len(probes) :
           probes[i] \notin {q[2] : q \in numbered}
      /\ \A n \in probed :
           ( /\ \A h \in hits : h < n - 3 \/ h > n
             /\ \E h \in hits : h < n - 3 )
           => \A m \in probed : m <= n

\* chapter 01 found, 02..05 missed: 06 onward, the existing 09 included, is
\* never probed
C2_Witness ==
  /\ pc = "scan_return"
  /\ HitNumeric = {1, 9}
  /\ ProbedNumeric = 0..5
  /\ Len(chapters) >= 1 /\ chapters[1] = "01"

(***************************************************************************)
(* C3                                                                      *)
(***************************************************************************)
\* C3: as long as no numeric chapter has been found the numeric scan does
\* not stop: when every numeric probe misses, all 40 suffixes are probed,
\* and the lowest existing suffix, wherever it is, ends up in the list.
C3_NoStopBeforeFirstHit ==
  pc \in {"scan_special", "scan_return"} =>
    LET hits == HitNumeric
        probed == ProbedNumeric
    IN  /\ hits = {} => probed = 0..(NUM_CHAPTERS - 1)
        /\ \A k \in hits :
             (\A j \in 0..(k - 1) : j \notin hits) =>
               /\ \A j \in 0..k : j \in probed
               /\ ChStr(k) \in Range(chapters)

\* the only chapter is "39", found after 39 misses
C3_Witness ==
  /\ pc = "scan_return"
  /\ HitNumeric = {NUM_CHAPTERS - 1}
  /\ "39" \in Range(chapters)
  /\ ProbedNumeric = 0..(NUM_CHAPTERS - 1)

(***************************************************************************)
(* C4                                                                      *)
(***************************************************************************)
\* C4: when scan_chapters returns, each of ps, an, ap, gl, lp, dd has been
\* probed exactly once, and a token is in the list iff its own locator
\* exists.
C4_SpecialsProbedOnceEach ==
  pc = "scan_return" =>
    \A t \in Range(SpecialTokens) :
      /\ TimesProbed(ChapterUrl(book_code, t)) = 1
      /\ t \in Range(chapters) <=> url_exists(ChapterUrl(book_code, t))

\* no numeric chapter at all, and exactly the glossary among the tokens
C4_Witness ==
  /\ pc = "scan_return"
  /\ HitNumeric = {}
  /\ chapters = << "gl" >>
  /\ \A t \in Range(SpecialTokens) : Probed(ChapterUrl(book_code, t))

(***************************************************************************)
(* C5                                                                      *)
(***************************************************************************)
\* C5: has_zip of every recorded part is the answer of the archive locator
\* <code>dd.zip, which is probed for the flag on top of the existence check,
\* whatever the chapter list is.
C5_HasZipIsArchiveProbe ==
  \A r \in PartRecords :
    /\ r.has_zip = url_exists(ZipUrl(r.code))
    /\ TimesProbed(ZipUrl(r.code)) = 2

\* an archive without any chapter: empty list, has_zip true
C5_Witness ==
  \E r \in PartRecords : r.chapters = << >> /\ r.has_zip

(***************************************************************************)
(* C6                                                                      *)
(***************************************************************************)
\* C6 (as stated): after the scan a part is in the catalog iff its archive,
\* its chapter "00" or its chapter "01" exists.
C6_PresentIffArchiveOr00Or01 ==
  Scanned =>
    \A q \in Positions :
      LET code == CodeAt(q[1], q[2], q[3], q[4])
      IN  PartPresent(q[1], q[2], q[3], q[4]) <=>
            \/ url_exists(ZipUrl(code))
            \/ url_exists(ChapterUrl(code, "00"))
            \/ url_exists(ChapterUrl(code, "01"))

\* C6 (amended): after the scan a part is in the catalog iff its archive or
\* its chapter "01" exists; chapter "00" alone does not make a part present.
C6_PresentIffArchiveOr01 ==
  Scanned =>
    \A q \in Positions :
      LET code == CodeAt(q[1], q[2], q[3], q[4])
      IN  PartPresent(q[1], q[2], q[3], q[4]) <=>
            \/ url_exists(ZipUrl(code))
            \/ url_exists(ChapterUrl(code, "01"))

\* a part without archive is present through its chapter "01"
C6_Witness ==
  /\ Scanned
  /\ \E q \in Positions :
       /\ PartPresent(q[1], q[2], q[3], q[4])
       /\ ~url_exists(ZipUrl(CodeAt(q[1], q[2], q[3], q[4])))

(***************************************************************************)
(* C7                                                                      *)
(***************************************************************************)
IsNumericSuffix(x) == \E n \in DOMAIN NumericSuffixes : NumericSuffixes[n] = x

\* int(x) of a numeric suffix
SuffixNumber(x) == CHOOSE n \in DOMAIN NumericSuffixes : NumericSuffixes[n] = x

TokenRank(x) == CHOOSE i \in 1..Len(SpecialTokens) : SpecialTokens[i] = x

OrderedChapters(L) ==
  \E k \in 0..Len(L) :
    /\ \A i \in 1..k : IsNumericSuffix(L[i])
    /\ \A i \in 1..(k - 1) : SuffixNumber(L[i]) < SuffixNumber(L[i + 1])
    /\ \A i \in (k + 1)..Len(L) : L[i] \in Range(SpecialTokens)
    /\ \A i \in (k + 1)..(Len(L) - 1) : TokenRank(L[i]) < TokenRank(L[i + 1])

\* C7: every chapter list of the catalog, and the list under construction,
\* is a strictly ascending run of numeric suffixes followed by special
\* tokens in the order ps, an, ap, gl, lp, dd, without repetition.
C7_ChapterListsOrdered ==
  /\ OrderedChapters(chapters)
  /\ \A r \in PartRecords : OrderedChapters(r.chapters)

\* a recorded list with two numeric chapters and two special tokens
C7_Witness ==
  \E r \in PartRecords : r.chapters = << "01", "02", "gl", "dd" >>

(***************************************************************************)
(* C8                                                                      *)
(***************************************************************************)
\* C8: the code stored at classes[c][name].languages[l].parts[p] is
\* class-letter(c) + l + subject code + p, the subject code being the code
\* field of the subject record and the SUBJECT_CODES key of name; and
\* build_book_code gives the same identifier.
C8_CodeIsComposition ==
  \A ck \in DOMAIN Classes :
    \A name \in DOMAIN Classes[ck] :
      LET subj == Classes[ck][name]
          cn == CHOOSE n \in 1..NUM_CLASSES : Str(n) = ck
      IN  /\ subj.code \in DOMAIN SUBJECT_CODES
          /\ SUBJECT_CODES[subj.code] = name
          /\ \A lc \in DOMAIN subj.languages :
               \A pk \in DOMAIN subj.languages[lc].parts :
                 LET rec == subj.languages[lc].parts[pk]
                     pn == CHOOSE n \in 1..MAX_PART : Str(n) = pk
                     letter == <<"a","b","c","d","e","f","g","h","i","j",
                                 "k","l">>[cn]
                 IN  /\ rec.code = letter \o lc \o subj.code \o pk
                     /\ build_book_code(cn, LANG_CODES[lc], subj.code, pn)
                          = rec.code

\* Physics part 3 of class 1 in English is recorded as "aeph3"
C8_Witness ==
  /\ PartPresent(1, 2, 1, 3)
  /\ PartRecord(1, 2, 1, 3).code = "aeph3"

(***************************************************************************)
(* C9                                                                      *)
(***************************************************************************)
\* C9: after the scan a subject is under a class iff the existence check
\* succeeded for some (language, part) of it in that class; a recorded
\* subject has a language, and a recorded language has a part.
C9_SubjectIffSomePartExists ==
  Scanned =>
    \A c \in 1..MaxClass, s \in 1..MaxSubjects :
      /\ SubjectPresent(c, s) <=>
           \E l \in 1..MaxLangs, p \in 1..MAX_PART : Exists(c, s, l, p)
      /\ SubjectPresent(c, s) =>
           LET langs == Classes[Str(c)][SubjName(s)].languages
           IN  /\ DOMAIN langs # {}
               /\ \A lc \in DOMAIN langs : DOMAIN langs[lc].parts # {}

\* a class with one subject recorded and the other one left out
C9_Witness ==
  /\ Scanned
  /\ \E c \in 1..MaxClass :
       /\ SubjectPresent(c, 1)
       /\ Str(c) \in DOMAIN Classes
       /\ SubjName(2) \notin DOMAIN Classes[Str(c)]

(***************************************************************************)
(* C10                                                                     *)
(***************************************************************************)
\* C10: after an interrupted run the catalog file is what it was before the
\* run: the previous complete catalog, or still absent; never an empty or
\* partial document.
C10_InterruptKeepsStore ==
  pc = "interrupted" => file \in {NoFile, Complete(PriorCatalog)}

(***************************************************************************)
(* C11                                                                     *)
(***************************************************************************)
\* C11: whatever the probes come to (success, non-success status, timeout,
\* connection error), scan_all is never aborted by a probe: it ends having
\* visited every class and written a complete catalog document, whose
\* classes mapping is empty when no probe succeeded.
C11_ScanAlwaysCompletes ==
  <>( /\ pc = "done"
      /\ class_num = MaxClass + 1
      /\ \A c \in 1..MaxClass, s \in 1..MaxSubjects, l \in 1..MaxLangs,
            p \in 1..MAX_PART : Probed(ZipUrl(CodeAt(c, s, l, p)))
      /\ file = Complete(catalog)
      /\ (\A u \in DOMAIN remote : remote[u] # Status(HTTP_OK))
            => catalog.classes = EmptyDict )

\* a finished scan in which a probe timed out and none succeeded
C11_Witness ==
  /\ pc = "done"
  /\ \E u \in DOMAIN remote : remote[u] = Failure("timeout") /\ Probed(u)
  /\ \A u \in DOMAIN remote : remote[u] # Status(HTTP_OK)
  /\ file = Complete(catalog)
  /\ catalog.classes = EmptyDict

(***************************************************************************)
(* C12                                                                     *)
(***************************************************************************)
\* C12 as stated: the existence probe answers true for every final status
\* of the 2xx class and false for every other status.
C12_TrueIffStatus2xx ==
  pc = "probed" =>
    LET r == remote[probes[1]]
    IN  r.kind = "status" => (returned[2] <=> r.code \in 200..299)

\* C12: the existence probe (url_exists, and the flag of check_url_exists)
\* answers true iff the final status is exactly 200; every other status,
\* the other 2xx ones included, and every request error give false, and
\* check_url_exists hands back the status, or 0 after a request error.
C12_TrueIffStatus200 ==
  pc = "probed" =>
    LET r == remote[probes[1]]
    IN  /\ returned[2] <=> (r.kind = "status" /\ r.code = 200)
        /\ returned[1] = "check_url_exists" =>
             returned[3] = (IF r.kind = "status" THEN r.code ELSE 0)

\* a probe of a locator whose final status is 204 has answered false
C12_Witness ==
  /\ pc = "probed"
  /\ remote[probes[1]] = Status(204)
  /\ returned = << "url_exists", FALSE >>

(***************************************************************************)
(* C13                                                                     *)
(***************************************************************************)
\* C13: download_file makes at most max_retries transfer attempts; every
\* attempt but the latest failed with a request error, so nothing follows a
\* success; it returns True exactly when the latest attempt succeeded and
\* False exactly when max_retries attempts all failed with a request error;
\* and it has slept after exactly the failed attempts that were not the
\* max_retries-th.
C13_RetriesBounded ==
  LET n == Len(transfers)
      failed == { k \in 1..n : transfers[k] \in {"http_error", "timeout",
                                                 "connection_error"} }
  IN  /\ n <= max_retries
      /\ 1..(n - 1) \subseteq failed
      /\ (n > 0 /\ transfers[n] = "ok")
           <=> (pc = "returned" /\ returned = << "download_file", TRUE >>)
      /\ (pc = "returned" /\ returned = << "download_file", FALSE >>)
           => (n = max_retries /\ failed = 1..n)
      /\ (pc = "transfer" /\ n = max_retries) => failed = 1..n
      /\ sleeps \in Seq(Nat)
      /\ \A i \in 1..Len(sleeps), j \in 1..Len(sleeps) :
           i < j => sleeps[i] < sleeps[j]
      /\ Range(sleeps) = { k \in failed : k < max_retries }

\* with the default of three attempts, all failed: False after two waits
C13_Witness ==
  /\ max_retries = 3
  /\ pc = "returned"
  /\ returned = << "download_file", FALSE >>
  /\ Len(transfers) = 3
  /\ sleeps = << 1, 2 >>

(***************************************************************************)
(* C14                                                                     *)
(***************************************************************************)
\* C14: find_available_parts returns a non-empty list. It is [1] when no
\* part in 1..4 is found. Otherwise it is the ascending run of consecutive
\* parts that begins at the lowest found part: each part of the run was
\* probed and its archive or its chapter "01" answered 200, and the probing
\* ended with the part after the run (or with part 4), two probes a part.
C14_PartsRunOrDefault ==
  (pc = "returned" /\ returned[1] = "find_available_parts") =>
    LET r == returned[2]
        n == Len(r)
        zip(p) == BASE_URL \o "aemh" \o Str(p) \o "dd.zip"
        ch1(p) == BASE_URL \o "aemh" \o Str(p) \o "01.pdf"
        answers200(u) == u \in DOMAIN remote /\ remote[u] = Status(200)
        found == { p \in 1..4 : answers200(zip(p)) \/ answers200(ch1(p)) }
        last == IF r[1] + n <= 4 THEN r[1] + n ELSE 4
    IN  /\ n >= 1
        /\ found = {} => r = << 1 >>
        /\ found # {} =>
             /\ \A p \in found : r[1] <= p
             /\ \A i \in 1..n : /\ r[i] = r[1] + i - 1
                                /\ r[i] \in found
                                /\ Probed(zip(r[i])) /\ Probed(ch1(r[i]))
             /\ r[1] + n <= 4 => (r[1] + n) \notin found
             /\ probes = [i \in 1..(2 * last) |->
                            IF i % 2 = 1 THEN zip((i + 1) \div 2)
                                         ELSE ch1(i \div 2)]

\* part 2 alone is returned although part 4 exists: it was never probed
C14_Witness ==
  /\ pc = "returned"
  /\ returned = << "find_available_parts", << 2 >> >>
  /\ Respond(BASE_URL \o "aemh4dd.zip") = Status(200)
  /\ ~ Probed(BASE_URL \o "aemh4dd.zip")
  /\ Len(probes) = 6

====
